---- MODULE Spec2Model ----
(***************************************************************************)
(* Model of the jobs controller (controllers/jobs.js): the job store, the  *)
(* six request handlers and the query / pagination / aggregation logic.    *)
(*                                                                         *)
(* A request body or query string is a function whose DOMAIN is the set of *)
(* the fields that are present; an absent field is a field outside the     *)
(* DOMAIN (JavaScript undefined).  Free text (position, search, page,      *)
(* limit) is a sequence of one-character strings, so that emptiness,       *)
(* ordering, case folding and number parsing are computed and not assumed. *)
(***************************************************************************)
EXTENDS Integers, Sequences, FiniteSets, TLC

VARIABLES store, nextId, clock, inflight, resp

vars == <<store, nextId, clock, inflight, resp>>

\* ------------------------------------------------------------------ bounds
MaxJobs == 2
MaxListJobs == 3
SeedMonths == 5
ExtraJobs == 3
ExtraMonths == 2

\* ------------------------------------------------------- program constants
DefaultPage == 1
DefaultLimit == 10
MonthLimit == 6

\* --------------------------------------------------------------- callers
Users == {"u1", "u2"}

\* ------------------------------------------------------------------ text
CharCode ==
  [A |-> 65, D |-> 68, Q |-> 81, a |-> 97, d |-> 100, e |-> 101, q |-> 113,
   v |-> 118]

LowerCode(n) == IF n \in 65..90 THEN n + 32 ELSE n

Dev == <<"D", "e", "v">>
Qa == <<"q", "a">>
NoText == <<>>

\* --------------------------------------------------------- generic helpers
Has(obj, f) == f \in DOMAIN obj

SetField(obj, f, v) ==
  [x \in DOMAIN obj \cup {f} |-> IF x = f THEN v ELSE obj[x]]

\* ------------------------------------------------------------ Job schema
StatusEnum == {"pending", "interview", "declined"}
JobTypeEnum == {"full-time", "part-time", "remote", "internship"}
DefaultStatus == "pending"
DefaultJobType == "full-time"
DefaultLocation == "my city"

\* validators of the paths present in a document or an update
PathsValid(doc) ==
  /\ Has(doc, "company") => doc.company # ""
  /\ Has(doc, "position") => doc.position # NoText
  /\ Has(doc, "status") => doc.status \in StatusEnum
  /\ Has(doc, "jobType") => doc.jobType \in JobTypeEnum

\* validation of a new document: required paths and the validators
CreateValid(doc) ==
  /\ Has(doc, "company")
  /\ Has(doc, "position")
  /\ Has(doc, "createdBy")
  /\ PathsValid(doc)

\* the stored document of a valid new document, defaults applied
NewDoc(doc, id, now) ==
  [id |-> id,
   createdBy |-> doc.createdBy,
   company |-> doc.company,
   position |-> doc.position,
   status |-> IF Has(doc, "status") THEN doc.status ELSE DefaultStatus,
   jobType |-> IF Has(doc, "jobType") THEN doc.jobType ELSE DefaultJobType,
   jobLocation |->
     IF Has(doc, "jobLocation") THEN doc.jobLocation ELSE DefaultLocation,
   createdAt |-> now]

SchemaPaths ==
  {"createdBy", "company", "position", "status", "jobType", "jobLocation"}

\* $set of the schema paths an update carries
ApplyUpdate(job, upd) ==
  [f \in DOMAIN job |->
     IF f \in SchemaPaths /\ Has(upd, f) THEN upd[f] ELSE job[f]]

\* ------------------------------------------------------------ the store
\* mutant: the lookup by id alone
FindOneAnyOwner(s, id, userId) ==
  IF \E i \in 1..Len(s) : s[i].id = id
  THEN CHOOSE i \in 1..Len(s) :
         s[i].id = id /\ \A j \in 1..(i - 1) : s[j].id # id
  ELSE 0

\* index of the first document with this id and owner, 0 when none
FindOne(s, id, userId) ==
  IF \E i \in 1..Len(s) : s[i].id = id /\ s[i].createdBy = userId
  THEN CHOOSE i \in 1..Len(s) :
         /\ s[i].id = id /\ s[i].createdBy = userId
         /\ \A j \in 1..(i - 1) : ~(s[j].id = id /\ s[j].createdBy = userId)
  ELSE 0

RemoveAt(s, i) == SubSeq(s, 1, i - 1) \o SubSeq(s, i + 1, Len(s))

NoResp == [op |-> "none"]
Idle == [active |-> FALSE]

\* a write marks the list request in flight as interleaved
Touch(fl) == IF fl.active THEN [fl EXCEPT !.dirty = TRUE] ELSE fl

Init ==
  /\ store = <<>>
  /\ nextId = 1
  /\ clock = 0
  /\ inflight = Idle
  /\ resp = NoResp

\* ------------------------------------------------------------- createJob
\* elapsed: the time since the previous request
CreateJob(u, body, cap, elapsed) ==
  LET doc == SetField(body, "createdBy", u) IN
  /\ nextId <= cap
  /\ clock' = clock + elapsed
  /\ IF CreateValid(doc)
     THEN LET job == NewDoc(doc, nextId, clock') IN
          /\ store' = Append(store, job)
          /\ nextId' = nextId + 1
          /\ inflight' = Touch(inflight)
          /\ resp' = [op |-> "create", user |-> u, result |-> "Created",
                      job |-> job]
     ELSE /\ resp' = [op |-> "create", user |-> u,
                      result |-> "ValidationError"]
          /\ UNCHANGED <<store, nextId, inflight>>

\* ---------------------------------------------------------------- getJob
GetJob(u, jobId) ==
  LET i == FindOne(store, jobId, u) IN
  /\ resp' = IF i = 0
             THEN [op |-> "get", user |-> u, id |-> jobId,
                   result |-> "NotFound"]
             ELSE [op |-> "get", user |-> u, id |-> jobId, result |-> "OK",
                   job |-> store[i]]
  /\ UNCHANGED <<store, nextId, clock, inflight>>

\* ------------------------------------------------------------- updateJob
\* position is free text; the other fields are plain strings
EmptyOf(f) == IF f = "position" THEN NoText ELSE ""

\* !x of a string field: undefined or ''
Falsy(obj, f) == ~Has(obj, f) \/ obj[f] = EmptyOf(f)

\* x === ''
IsEmpty(obj, f) == Has(obj, f) /\ obj[f] = EmptyOf(f)

\* the left operand of the comma operator: evaluated, value dropped
LeftOperand(body) ==
  \/ Falsy(body, "company")
  \/ Falsy(body, "position")
  \/ IsEmpty(body, "company")
  \/ IsEmpty(body, "position")
  \/ IsEmpty(body, "jobLocation")
  \/ IsEmpty(body, "status")

Comma(left, right) == right

UpdateRejected(body) == Comma(LeftOperand(body), IsEmpty(body, "jobType"))

UpdateJob(u, jobId, body) ==
  LET i == FindOne(store, jobId, u) IN
  /\ IF UpdateRejected(body)
     THEN /\ resp' = [op |-> "update", user |-> u, id |-> jobId,
                      result |-> "BadRequest"]
          /\ UNCHANGED <<store, inflight>>
     ELSE IF ~PathsValid(body)
     THEN /\ resp' = [op |-> "update", user |-> u, id |-> jobId,
                      result |-> "ValidationError"]
          /\ UNCHANGED <<store, inflight>>
     ELSE IF i = 0
     THEN /\ resp' = [op |-> "update", user |-> u, id |-> jobId,
                      result |-> "NotFound"]
          /\ UNCHANGED <<store, inflight>>
     ELSE LET job == ApplyUpdate(store[i], body) IN
          /\ store' = [store EXCEPT ![i] = job]
          /\ inflight' = Touch(inflight)
          /\ resp' = [op |-> "update", user |-> u, id |-> jobId,
                      result |-> "OK", job |-> job]
  /\ UNCHANGED <<nextId, clock>>

\* ------------------------------------------------------------- deleteJob
DeleteJob(u, jobId) ==
  LET i == FindOne(store, jobId, u) IN
  /\ IF i = 0
     THEN /\ resp' = [op |-> "delete", user |-> u, id |-> jobId,
                      result |-> "NotFound"]
          /\ UNCHANGED <<store, inflight>>
     ELSE /\ store' = RemoveAt(store, i)
          /\ inflight' = Touch(inflight)
          /\ resp' = [op |-> "delete", user |-> u, id |-> jobId,
                      result |-> "NoContent"]
  /\ UNCHANGED <<nextId, clock>>

\* ------------------------------------------------------------ getAllJobs
DigitVal ==
  ("0" :> 0) @@ ("1" :> 1) @@ ("2" :> 2) @@ ("3" :> 3) @@ ("4" :> 4) @@
  ("5" :> 5) @@ ("6" :> 6) @@ ("7" :> 7) @@ ("8" :> 8) @@ ("9" :> 9)

IsDigits(txt) == \A i \in 1..Len(txt) : txt[i] \in DOMAIN DigitVal

RECURSIVE DigitsValue(_)
DigitsValue(txt) ==
  IF txt = <<>> THEN 0
  ELSE 10 * DigitsValue(SubSeq(txt, 1, Len(txt) - 1)) + DigitVal[txt[Len(txt)]]

NaN == [nan |-> TRUE, val |-> 0]
Num(n) == [nan |-> FALSE, val |-> n]

\* Number(x) of a query value: undefined is NaN, '' is 0, an optionally
\* signed run of digits is its value, any other text is NaN
ToNumber(q, f) ==
  IF ~Has(q, f) THEN NaN
  ELSE LET txt == q[f] IN
       IF txt = <<>> THEN Num(0)
       ELSE IF IsDigits(txt) THEN Num(DigitsValue(txt))
       ELSE IF txt[1] \in {"-", "+"} /\ Len(txt) > 1 /\ IsDigits(Tail(txt))
       THEN Num(IF txt[1] = "-" THEN 0 - DigitsValue(Tail(txt))
                ELSE DigitsValue(Tail(txt)))
       ELSE NaN

\* n || dflt
OrDefault(n, dflt) == IF n.nan \/ n.val = 0 THEN dflt ELSE n.val

PageOf(q) == OrDefault(ToNumber(q, "page"), DefaultPage)
LimitOf(q) == OrDefault(ToNumber(q, "limit"), DefaultLimit)
SkipOf(q) == (PageOf(q) - 1) * LimitOf(q)

\* mutant: the sentinel 'all' is not exempted
ConstrainsAll(q, f) == Has(q, f) /\ q[f] # ""

\* x && x !== 'all'
Constrains(q, f) == Has(q, f) /\ q[f] # "" /\ q[f] # "all"

QueryObject(u, q) ==
  [f \in {"createdBy"}
        \cup (IF Has(q, "search") /\ q.search # NoText THEN {"position"} ELSE {})
        \cup (IF Constrains(q, "status") THEN {"status"} ELSE {})
        \cup (IF Constrains(q, "jobType") THEN {"jobType"} ELSE {}) |->
     IF f = "createdBy" THEN u
     ELSE IF f = "position" THEN q.search
     ELSE q[f]]

\* { $regex: pat, $options: 'i' } for a pattern of letters
RegexI(txt, pat) ==
  \E off \in 0..(Len(txt) - Len(pat)) :
    \A k \in 1..Len(pat) :
      LowerCode(CharCode[txt[off + k]]) = LowerCode(CharCode[pat[k]])

\* mutant: the owner is not part of the predicate
MatchesAnyOwner(job, qo) ==
  /\ Has(qo, "position") => RegexI(job.position, qo.position)
  /\ Has(qo, "status") => job.status = qo.status
  /\ Has(qo, "jobType") => job.jobType = qo.jobType

Matches(job, qo) ==
  /\ job.createdBy = qo.createdBy
  /\ Has(qo, "position") => RegexI(job.position, qo.position)
  /\ Has(qo, "status") => job.status = qo.status
  /\ Has(qo, "jobType") => job.jobType = qo.jobType

\* Job.find(queryObject) in natural order
Find(s, qo) == SelectSeq(s, LAMBDA job : Matches(job, qo))

\* mutant: the count ignores the predicate
CountAll(s, qo) == Len(s)

\* Job.countDocuments(queryObject)
CountDocuments(s, qo) == Len(Find(s, qo))

\* binary comparison of two strings
RECURSIVE TextLess(_, _)
TextLess(a, b) ==
  IF b = <<>> THEN FALSE
  ELSE IF a = <<>> THEN TRUE
  ELSE IF CharCode[Head(a)] # CharCode[Head(b)]
       THEN CharCode[Head(a)] < CharCode[Head(b)]
  ELSE TextLess(Tail(a), Tail(b))

\* a sorts strictly before b under the sort parameter
Before(a, b, sort) ==
  IF sort = "latest" THEN a.createdAt > b.createdAt
  ELSE IF sort = "oldest" THEN a.createdAt < b.createdAt
  ELSE IF sort = "a-z" THEN TextLess(a.position, b.position)
  ELSE IF sort = "z-a" THEN TextLess(b.position, a.position)
  ELSE FALSE

SortValues == {"latest", "oldest", "a-z", "z-a"}

Perms(n) ==
  {p \in [1..n -> 1..n] : \A i, j \in 1..n : i # j => p[i] # p[j]}

\* the orders the cursor can deliver: the natural order without a sort
\* clause, any order that respects the sort key with one (the order of
\* documents with equal keys is not specified)
Orderings(found, q) ==
  IF Has(q, "sort") /\ q.sort \in SortValues
  THEN {[i \in 1..Len(found) |-> found[p[i]]] :
          p \in {pp \in Perms(Len(found)) :
                   \A i, j \in 1..Len(found) :
                     i < j => ~Before(found[pp[j]], found[pp[i]], q.sort)}}
  ELSE {found}

Min(a, b) == IF a < b THEN a ELSE b
Abs(n) == IF n < 0 THEN 0 - n ELSE n

\* cursor.skip(skip).limit(limit); a negative limit is a limit of |limit|
SkipLimit(ordered, skip, limit) ==
  SubSeq(ordered, skip + 1, Min(Len(ordered), skip + Abs(limit)))

\* Math.ceil(a / b) for a >= 0 and b # 0
Ceil(a, b) ==
  IF b > 0 THEN (a + b - 1) \div b ELSE 0 - (a \div (0 - b))

\* lines 7-52: build the query, run it; the store rejects a negative skip
GetAllJobsFind(u, q) ==
  LET qo == QueryObject(u, q) IN
  /\ ~inflight.active
  /\ IF SkipOf(q) < 0
     THEN /\ resp' = [op |-> "list", user |-> u, q |-> q,
                      result |-> "ServerError"]
          /\ UNCHANGED inflight
     ELSE /\ \E ordered \in Orderings(Find(store, qo), q) :
               inflight' = [active |-> TRUE, kind |-> "list", user |-> u,
                            q |-> q, dirty |-> FALSE,
                            jobs |-> SkipLimit(ordered, SkipOf(q), LimitOf(q))]
          /\ resp' = NoResp
  /\ UNCHANGED <<store, nextId, clock>>

\* mutant: the count runs on an empty predicate
GetAllJobsCountAll ==
  /\ inflight.active /\ inflight.kind = "list"
  /\ resp' = [op |-> "list", user |-> inflight.user, q |-> inflight.q,
              result |-> "OK", jobs |-> inflight.jobs,
              totalJobs |-> Len(store),
              numOfPages |-> Ceil(Len(store), LimitOf(inflight.q)),
              interleaved |-> inflight.dirty]
  /\ inflight' = Idle
  /\ UNCHANGED <<store, nextId, clock>>

\* lines 55-62: count, page count, respond
GetAllJobsCount ==
  /\ inflight.active /\ inflight.kind = "list"
  /\ LET totalJobs == CountDocuments(store,
                                     QueryObject(inflight.user, inflight.q))
     IN resp' = [op |-> "list", user |-> inflight.user, q |-> inflight.q,
                 result |-> "OK", jobs |-> inflight.jobs,
                 totalJobs |-> totalJobs,
                 numOfPages |-> Ceil(totalJobs, LimitOf(inflight.q)),
                 interleaved |-> inflight.dirty]
  /\ inflight' = Idle
  /\ UNCHANGED <<store, nextId, clock>>

\* ------------------------------------------------------------- showStats
UnitsPerMonth == 2
EpochMonths == 2023 * 12 + 9

MonthsOf(t) == EpochMonths + (t \div UnitsPerMonth)
YearOf(t) == MonthsOf(t) \div 12
MonthOf(t) == (MonthsOf(t) % 12) + 1

\* mutant: $group without the $match stage
StatusGroupsUnmatched(s, u) ==
  {[id |-> st,
    count |-> Cardinality({i \in 1..Len(s) : s[i].status = st})] :
     st \in {s[i].status : i \in 1..Len(s)}}

\* $match createdBy, $group by status with $sum: 1
StatusGroups(s, u) ==
  {[id |-> st,
    count |-> Cardinality({i \in 1..Len(s) :
                             s[i].createdBy = u /\ s[i].status = st})] :
     st \in {s[i].status : i \in {k \in 1..Len(s) : s[k].createdBy = u}}}

\* stats.reduce(...): an object keyed by the group ids
Reduce(groups) ==
  [title \in {g.id : g \in groups} |->
     (CHOOSE g \in groups : g.id = title).count]

\* acc[title] || 0
OrZero(acc, title) ==
  IF Has(acc, title) /\ acc[title] # 0 THEN acc[title] ELSE 0

DefaultStats(s, u) ==
  LET acc == Reduce(StatusGroups(s, u)) IN
  [pending |-> OrZero(acc, "pending"),
   interview |-> OrZero(acc, "interview"),
   declined |-> OrZero(acc, "declined")]

\* $match createdBy, $group by { $year, $month } of createdAt with $sum: 1
MonthGroups(s, u) ==
  {[year |-> ym[1], month |-> ym[2],
    count |-> Cardinality({i \in 1..Len(s) :
                             /\ s[i].createdBy = u
                             /\ YearOf(s[i].createdAt) = ym[1]
                             /\ MonthOf(s[i].createdAt) = ym[2]})] :
     ym \in {<<YearOf(s[i].createdAt), MonthOf(s[i].createdAt)>> :
               i \in {k \in 1..Len(s) : s[k].createdBy = u}}}

\* $sort: { '_id.year': -1, '_id.month': -1 }
RECURSIVE SortDesc(_)
SortDesc(groups) ==
  IF groups = {} THEN <<>>
  ELSE LET top == CHOOSE g \in groups :
                    \A h \in groups :
                      \/ g.year > h.year
                      \/ g.year = h.year /\ g.month >= h.month
       IN <<top>> \o SortDesc(groups \ {top})

\* $limit
Limit(sq, n) == SubSeq(sq, 1, Min(Len(sq), n))

MonthsShort ==
  <<"Jan", "Feb", "Mar", "Apr", "May", "Jun", "Jul", "Aug", "Sep", "Oct",
    "Nov", "Dec">>

\* moment().month(month - 1).year(year).format('MMM Y')
FormatDate(year, month) == <<MonthsShort[(month - 1) + 1], year>>

\* mutant: the series is left in descending order
NotReversed(sq) == sq

Reverse(sq) == [i \in 1..Len(sq) |-> sq[Len(sq) + 1 - i]]

MonthlyApplications(s, u) ==
  LET top == Limit(SortDesc(MonthGroups(s, u)), MonthLimit)
      mapped == [i \in 1..Len(top) |->
                   [date |-> FormatDate(top[i].year, top[i].month),
                    count |-> top[i].count]]
  IN Reverse(mapped)

\* lines 136-158: the first aggregate and its reshaping
ShowStatsStatus(u) ==
  /\ ~inflight.active
  /\ inflight' = [active |-> TRUE, kind |-> "stats", user |-> u,
                  dirty |-> FALSE, defaultStats |-> DefaultStats(store, u)]
  /\ resp' = NoResp
  /\ UNCHANGED <<store, nextId, clock>>

\* lines 160-189: the second aggregate, respond
ShowStatsMonthly ==
  /\ inflight.active /\ inflight.kind = "stats"
  /\ resp' = [op |-> "stats", user |-> inflight.user, result |-> "OK",
              defaultStats |-> inflight.defaultStats,
              monthlyApplications |->
                MonthlyApplications(store, inflight.user),
              interleaved |-> inflight.dirty]
  /\ inflight' = Idle
  /\ UNCHANGED <<store, nextId, clock>>

\* ------------------------------------------------------------------ time
Tick(d, cap) ==
  /\ clock + d <= cap
  /\ clock' = clock + d
  /\ resp' = NoResp
  /\ UNCHANGED <<store, nextId, inflight>>

\* ------------------------------------------------------------ input sets
Optional(f, vals) == {<<>>} \cup {[x \in {f} |-> v] : v \in vals}

Merge(a, b) ==
  [x \in DOMAIN a \cup DOMAIN b |-> IF x \in DOMAIN a THEN a[x] ELSE b[x]]

\* request bodies of the record operations
Bodies ==
  {Merge(c, Merge(p, Merge(t, o))) :
     c \in Optional("company", {"", "acme"}),
     p \in Optional("position", {Dev}),
     t \in Optional("jobType", {""}),
     o \in Optional("createdBy", {"u2"})}

Queries == Optional("limit", {<<"1">>})

\* request bodies and query strings of the list specification
ListBodies ==
  {[company |-> "acme", position |-> Dev],
   [company |-> "acme", position |-> Qa, status |-> "interview"]}

ListQueries ==
  {Merge(s, Merge(o, Merge(g, l))) :
     s \in Optional("status", {"interview"}),
     o \in Optional("sort", {"latest", "oldest", "a-z", "z-a"}),
     g \in Optional("page", {<<"2">>}),
     l \in Optional("limit", {<<"2">>})}

\* request bodies and query strings of the filter specification
FilterBodies ==
  {[company |-> "acme", position |-> Dev],
   [company |-> "acme", position |-> Qa, status |-> "interview"],
   [company |-> "acme", position |-> Dev, jobType |-> "remote"]}

FilterQueries ==
  {Merge(a, Merge(s, t)) :
     a \in Optional("search", {<<"d">>}),
     s \in Optional("status", {"all", "interview"}),
     t \in Optional("jobType", {"all", "remote"})}

\* page and limit values of the pagination specification
NumberTexts ==
  {<<>>, <<"0">>, <<"1">>, <<"2">>, <<"1", "2">>, <<"-">>, <<"-", "1">>,
   <<"-", "0">>, <<"+", "2">>, <<"a">>, <<"2", "a">>}

PageQueries ==
  {Merge(g, l) : g \in Optional("page", NumberTexts),
                 l \in Optional("limit", NumberTexts)}

\* request bodies of the statistics specification
StatsBodies ==
  {Merge([company |-> "acme", position |-> Dev], s) :
     s \in Optional("status", {"interview", "declined"})}

KnownIds == 1..nextId

\* ------------------------------------------------------- specifications
Next ==
  \/ \E u \in Users, body \in Bodies : CreateJob(u, body, MaxJobs, 0)
  \/ \E u \in Users, id \in KnownIds : GetJob(u, id)
  \/ \E u \in Users, id \in KnownIds, body \in Bodies : UpdateJob(u, id, body)
  \/ \E u \in Users, id \in KnownIds : DeleteJob(u, id)
  \/ \E u \in Users, q \in Queries : GetAllJobsFind(u, q)
  \/ GetAllJobsCount
  \/ \E u \in Users : ShowStatsStatus(u)
  \/ ShowStatsMonthly

Spec == Init /\ [][Next]_vars

\* the list operation with no write between its two queries
NextList ==
  \/ \E u \in Users, body \in ListBodies :
       ~inflight.active /\ CreateJob(u, body, MaxListJobs, 1)
  \/ \E u \in Users, q \in ListQueries : GetAllJobsFind(u, q)
  \/ GetAllJobsCount

SpecList == Init /\ [][NextList]_vars

NextFilter ==
  \/ \E u \in Users, body \in FilterBodies :
       ~inflight.active /\ CreateJob(u, body, MaxJobs, 0)
  \/ \E u \in Users, q \in FilterQueries : GetAllJobsFind(u, q)
  \/ GetAllJobsCount

SpecFilter == Init /\ [][NextFilter]_vars

NextPage ==
  \/ \E u \in Users : CreateJob(u, [company |-> "acme", position |-> Dev], MaxJobs, 0)
  \/ \E u \in Users, q \in PageQueries : GetAllJobsFind(u, q)
  \/ GetAllJobsCount

SpecPage == Init /\ [][NextPage]_vars

NextStats ==
  \/ \E u \in Users, body \in StatsBodies :
       CreateJob(u, body, SeedMonths + ExtraJobs, 0)
  \/ \E u \in Users : ShowStatsStatus(u)
  \/ ShowStatsMonthly
  \/ Tick(UnitsPerMonth, (SeedMonths - 1 + ExtraMonths) * UnitsPerMonth)

\* the store after u1 has created one job in each of SeedMonths months
Seed ==
  [i \in 1..SeedMonths |->
     NewDoc([company |-> "acme", position |-> Dev, createdBy |-> "u1"], i,
            (i - 1) * UnitsPerMonth)]

InitStats ==
  /\ store = Seed
  /\ nextId = SeedMonths + 1
  /\ clock = (SeedMonths - 1) * UnitsPerMonth
  /\ inflight = Idle
  /\ resp = NoResp

SpecStats == InitStats /\ [][NextStats]_vars

\* ------------------------------------------------------------ properties
Indices(s) == 1..Len(s)

OwnedIdx(s, u) == {i \in Indices(s) : s[i].createdBy = u}

RECURSIVE SumCounts(_)
SumCounts(sq) == IF sq = <<>> THEN 0 ELSE Head(sq).count + SumCounts(Tail(sq))

ListDone == resp.op = "list" /\ resp.result = "OK"

\* C1: tenant isolation. Every record a list or a read-one returns to a
\* caller has that caller as owner; a caller's statistics count no more
\* records than the caller owns (per status, and over the months); an update
\* or delete request of a caller leaves every record that another caller
\* owns at that moment in the store, unchanged.
TenantIsolation ==
  [][/\ (resp'.op = "list" /\ resp'.result = "OK") =>
          \A k \in Indices(resp'.jobs) : resp'.jobs[k].createdBy = resp'.user
     /\ (resp'.op = "get" /\ resp'.result = "OK") =>
          resp'.job.createdBy = resp'.user
     /\ (inflight'.active /\ inflight'.kind = "stats" /\ ~inflight.active) =>
          \A st \in StatusEnum :
            inflight'.defaultStats[st] <=
              Cardinality({i \in OwnedIdx(store, inflight'.user) :
                             store[i].status = st})
     /\ resp'.op = "stats" =>
          SumCounts(resp'.monthlyApplications) <=
            Cardinality(OwnedIdx(store, resp'.user))
     /\ resp'.op \in {"update", "delete"} =>
          \A i \in Indices(store) :
            store[i].createdBy # resp'.user =>
              \E j \in Indices(store') : store'[j] = store[i]
    ]_vars

\* C1 witness: a list answered with a job while the store also holds a job
\* of another caller.
TenantIsolationWitness ==
  /\ ListDone
  /\ Len(resp.jobs) > 0
  /\ \E i \in Indices(store) : store[i].createdBy # resp.user

\* C2: owner immutability. A created record's owner is the creating caller
\* and no step changes the owner of a stored record.
OwnerImmutable ==
  [][/\ (resp'.op = "create" /\ resp'.result = "Created") =>
          store'[Len(store')].createdBy = resp'.user
     /\ \A i \in Indices(store), j \in Indices(store') :
          store[i].id = store'[j].id =>
            store'[j].createdBy = store[i].createdBy
    ]_vars

\* company or position is absent or an empty string
LacksRequired(body) == Falsy(body, "company") \/ Falsy(body, "position")

\* C3: an update request whose company or position is absent or empty
\* fails with a validation error and leaves the store unchanged.
UpdateNeedsCompanyAndPosition ==
  [][resp'.op = "update" =>
       \A body \in Bodies :
         (LacksRequired(body) /\ UpdateJob(resp'.user, resp'.id, body)) =>
           /\ resp'.result \in {"BadRequest", "ValidationError"}
           /\ store' = store
    ]_vars

NoMatch(s, id, u) ==
  ~\E i \in Indices(s) : s[i].id = id /\ s[i].createdBy = u

\* an update body the validation accepts
ValidFields(body) ==
  /\ ~LacksRequired(body)
  /\ ~IsEmpty(body, "jobType")
  /\ PathsValid(body)

ValidBodies == {body \in Bodies : ValidFields(body)}

\* C4: read-one, update with valid fields and delete on an identifier that
\* matches no record of the caller end in NotFound and leave the store
\* unchanged; a delete repeated after a successful delete ends in NotFound.
NotFoundUniform ==
  [][/\ (resp'.op \in {"get", "delete"}
           /\ NoMatch(store, resp'.id, resp'.user)) =>
          (resp'.result = "NotFound" /\ store' = store)
     /\ (resp'.op = "update" /\ NoMatch(store, resp'.id, resp'.user)) =>
          \A body \in ValidBodies :
            UpdateJob(resp'.user, resp'.id, body) =>
              (resp'.result = "NotFound" /\ store' = store)
     /\ (resp.op = "delete" /\ resp.result = "NoContent"
           /\ resp'.op = "delete" /\ resp'.id = resp.id
           /\ resp'.user = resp.user) =>
          resp'.result = "NotFound"
    ]_vars

\* C4 witness: a delete answered NotFound for an id that was created and is
\* no longer stored, while the store is not empty.
NotFoundWitness ==
  /\ resp.op = "delete" /\ resp.result = "NotFound"
  /\ resp.id < nextId
  /\ \A i \in Indices(store) : store[i].id # resp.id
  /\ store # <<>>

\* the answers of a list request that runs both its queries on store s
AtomicResponses(s, u, q) ==
  LET qo == QueryObject(u, q) IN
  {[jobs |-> SkipLimit(ordered, SkipOf(q), LimitOf(q)),
    totalJobs |-> CountDocuments(s, qo),
    numOfPages |-> Ceil(CountDocuments(s, qo), LimitOf(q))] :
     ordered \in Orderings(Find(s, qo), q)}

Answer(r) ==
  [jobs |-> r.jobs, totalJobs |-> r.totalJobs, numOfPages |-> r.numOfPages]

\* C10 as claimed: every list response, also one with writes between its
\* fetch and its count, returns no more jobs than totalJobs and is an answer
\* of an atomic list (here: on the store its count ran on).
ListSnapshot ==
  ListDone =>
    /\ Len(resp.jobs) <= resp.totalJobs
    /\ Answer(resp) \in AtomicResponses(store, resp.user, resp.q)

\* C10 amended: a list response with no write between its fetch and its
\* count returns no more jobs than totalJobs and is an answer of an atomic
\* list on the store.
ListSnapshotQuiet ==
  (ListDone /\ ~resp.interleaved) =>
    /\ Len(resp.jobs) <= resp.totalJobs
    /\ Answer(resp) \in AtomicResponses(store, resp.user, resp.q)

\* C10 witness: an undisturbed list with a limit answered with one job of
\* two.
ListSnapshotWitness ==
  /\ ListDone /\ ~resp.interleaved
  /\ Len(resp.jobs) = 1 /\ resp.totalJobs = 2

\* C5: the effective page and limit of every list request are positive
\* (page 1 when absent, unparsable or not positive; limit 10 by default) and
\* skip is never negative.
EffectivePagination ==
  resp.op = "list" =>
    /\ PageOf(resp.q) >= 1
    /\ LimitOf(resp.q) >= 1
    /\ SkipOf(resp.q) >= 0
    /\ (ToNumber(resp.q, "page").nan \/ ToNumber(resp.q, "page").val <= 0) =>
         PageOf(resp.q) = 1
    /\ ~Has(resp.q, "limit") => LimitOf(resp.q) = 10

Max(a, b) == IF a > b THEN a ELSE b

\* C6: with no interleaved write and a valid page and limit, jobs are the
\* elements [skip, skip + limit) of the caller's filtered and sorted
\* records, totalJobs is the size of the filtered set and numOfPages is
\* ceil(totalJobs / limit); 12 matches, page 2, limit 5 give offsets 5..9
\* and 3 pages.
PaginationCorrect ==
  /\ (ListDone /\ ~resp.interleaved) =>
       LET q == resp.q
           page == IF Has(q, "page") THEN DigitsValue(q.page) ELSE 1
           limit == IF Has(q, "limit") THEN DigitsValue(q.limit) ELSE 10
           skip == (page - 1) * limit
           matching == Find(store, QueryObject(resp.user, q))
           total == Len(matching)
       IN /\ resp.totalJobs = total
          /\ resp.numOfPages * limit >= total
          /\ (resp.numOfPages - 1) * limit < total
          /\ Len(resp.jobs) = Max(0, Min(limit, total - skip))
          /\ \E ordered \in Orderings(matching, q) :
               \A k \in Indices(resp.jobs) : resp.jobs[k] = ordered[skip + k]
  /\ LET twelve == [i \in 1..12 |-> i]
         q == [page |-> <<"2">>, limit |-> <<"5">>]
     IN /\ SkipLimit(twelve, SkipOf(q), LimitOf(q)) = <<6, 7, 8, 9, 10>>
        /\ Ceil(12, LimitOf(q)) = 3

\* C6 witness: page 2 of a sorted list with limit 2 over three matching
\* records: one job, two pages.
PaginationWitness ==
  /\ ListDone /\ ~resp.interleaved
  /\ Has(resp.q, "page") /\ Has(resp.q, "limit") /\ Has(resp.q, "sort")
  /\ resp.totalJobs = 3 /\ Len(resp.jobs) = 1 /\ resp.numOfPages = 2

Without(q, f) == [x \in DOMAIN q \ {f} |-> q[x]]

\* C9: a list with status "all" (jobType "all") returns what the same list
\* without the status (jobType) parameter returns, and conversely.
AllIsNoFilter ==
  (ListDone /\ ~resp.interleaved) =>
    \A f \in {"status", "jobType"} :
      /\ (Has(resp.q, f) /\ resp.q[f] = "all") =>
           Answer(resp) \in
             AtomicResponses(store, resp.user, Without(resp.q, f))
      /\ ~Has(resp.q, f) =>
           Answer(resp) \in
             AtomicResponses(store, resp.user, SetField(resp.q, f, "all"))

\* C9 witness: a list with status "all" answered with jobs of two statuses.
AllIsNoFilterWitness ==
  /\ ListDone /\ ~resp.interleaved
  /\ Has(resp.q, "status") /\ resp.q.status = "all"
  /\ \E k, l \in Indices(resp.jobs) : resp.jobs[k].status # resp.jobs[l].status

StatusCount(s, u, st) ==
  Cardinality({i \in OwnedIdx(s, u) : s[i].status = st})

\* C7: the status summary has exactly the keys pending, interview and
\* declined, each the number of the caller's records with that status, and
\* their sum is at most the number of the caller's records.
StatusSummary ==
  /\ (inflight.active /\ inflight.kind = "stats" /\ ~inflight.dirty) =>
       LET d == inflight.defaultStats
           u == inflight.user
       IN /\ DOMAIN d = {"pending", "interview", "declined"}
          /\ \A st \in DOMAIN d : d[st] = StatusCount(store, u, st)
          /\ d.pending + d.interview + d.declined
               <= Cardinality(OwnedIdx(store, u))
  /\ resp.op = "stats" =>
       /\ DOMAIN resp.defaultStats = {"pending", "interview", "declined"}
       /\ ~resp.interleaved =>
            \A st \in StatusEnum :
              resp.defaultStats[st] = StatusCount(store, resp.user, st)

\* C7 witness: statistics answered with several pending, one interview and
\* no declined record, while another caller's record is stored.
StatusSummaryWitness ==
  /\ resp.op = "stats" /\ ~resp.interleaved
  /\ resp.defaultStats.pending >= 2
  /\ resp.defaultStats.interview = 1
  /\ resp.defaultStats.declined = 0
  /\ \E i \in Indices(store) : store[i].createdBy # resp.user

\* the (year, month) a label of the series names
LabelMonth(date) ==
  <<date[2], CHOOSE n \in 1..12 : MonthsShort[n] = date[1]>>

Earlier(a, b) == a[1] < b[1] \/ (a[1] = b[1] /\ a[2] < b[2])

OwnedMonths(s, u) ==
  {<<YearOf(s[i].createdAt), MonthOf(s[i].createdAt)>> : i \in OwnedIdx(s, u)}

\* C8: monthlyApplications has one entry for each of the at most 6 most
\* recent creation months of the caller's records and no other, strictly
\* ascending by (year, month), each with the number (> 0) of the caller's
\* records created in that month.
MonthlySeries ==
  resp.op = "stats" =>
    LET m == resp.monthlyApplications
        months == OwnedMonths(store, resp.user)
        recent == {ym \in months :
                     Cardinality({z \in months : Earlier(ym, z)}) < 6}
    IN /\ Len(m) <= 6
       /\ {LabelMonth(m[k].date) : k \in Indices(m)} = recent
       /\ \A k, l \in Indices(m) :
            k < l => Earlier(LabelMonth(m[k].date), LabelMonth(m[l].date))
       /\ \A k \in Indices(m) :
            /\ m[k].count > 0
            /\ m[k].count =
                 Cardinality({i \in OwnedIdx(store, resp.user) :
                                <<YearOf(store[i].createdAt),
                                  MonthOf(store[i].createdAt)>>
                                  = LabelMonth(m[k].date)})

\* C8 witness: a caller with records in seven months over two years gets
\* six entries, one of them counting two records.
MonthlySeriesWitness ==
  /\ resp.op = "stats"
  /\ Cardinality(OwnedMonths(store, resp.user)) = 7
  /\ Len(resp.monthlyApplications) = 6
  /\ resp.monthlyApplications[1].date[2] # resp.monthlyApplications[6].date[2]
  /\ \E k \in 1..6 : resp.monthlyApplications[k].count = 2

====
